---- MODULE Spec2Model ----
(***************************************************************************)
(* The change-email OTP plugin (src/src/index.ts): the two endpoints       *)
(* sendChangeEmailOTP (RequestChange) and verifyChangeEmailOTP             *)
(* (ConfirmChange) over the host's verification store and user directory.  *)
(* Each request is a slot that advances one awaited collaborator call per  *)
(* step; the synchronous code that follows an await belongs to the step of *)
(* that await.  Strings that the code builds, splits or parses are         *)
(* sequences of one-character strings.                                     *)
(***************************************************************************)
EXTENDS Integers, Sequences, FiniteSets, TLC

VARIABLES
    now,        \* the system clock read by new Date(), in minutes
    users,      \* user directory: user id -> [email, emailVerified]
    store,      \* verification store: set of records
    rl,         \* rate limiter counters of the plugin's rules, per rule
    slots,      \* requests in flight: slot -> request state
    \* history variables, written by the observers only
    hist,       \* slot -> what the call met when it arrived
    owner,      \* email -> user whose request created its last record
    wrongSub,   \* email -> wrong-code calls that found its record live
    prevCode,   \* email -> code of the record the live one replaced
    consumed,   \* email -> code consumed by the last success
    undelivered,\* email -> the notifier failed in the call that made its record
    exhausted,  \* email -> code of the record TOO_MANY_ATTEMPTS has deleted
    arrived,    \* endpoint path -> requests received in the current minute
    compared    \* email -> calls whose code was compared with its record

prog == <<now, users, store, rl, slots>>

history ==
    <<hist, owner, wrongSub, prevCode, consumed, undelivered, exhausted>>

counters == <<arrived, compared>>

vars == <<prog, history, counters>>

-----------------------------------------------------------------------------
(* Bounds of the model *)

MaxTime == 2

Slots == {1, 2}

UserIds == {"u1", "u2"}

NoUser == "none"

\* bodies the clients send as `email` (before the schema normalises them)
RawEmails == { <<"N", "@", "x">>, <<"n", "@", "x">>, <<"q", "@", "x">> }

\* codes generateRandomString can draw (two of the 10^6)
SampleOtps == { <<"0", "4", "2", "6", "1", "3">>,
                <<"1", "1", "1", "1", "1", "1">> }

-----------------------------------------------------------------------------
(* String helpers *)

Digits == <<"0", "1", "2", "3", "4", "5", "6", "7", "8", "9">>

IsDigit(c) == \E i \in 1..10 : Digits[i] = c

DigitVal(c) == (CHOOSE i \in 1..10 : Digits[i] = c) - 1

\* the value JavaScript calls NaN
NaN == -1

LowerChar(c) ==
    CASE c = "N" -> "n"
      [] c = "Q" -> "q"
      [] c = "X" -> "x"
      [] OTHER -> c

toLowerCase(s) == [i \in 1..Len(s) |-> LowerChar(s[i])]

RECURSIVE trimStart(_)
trimStart(s) ==
    IF s # <<>> /\ Head(s) = " " THEN trimStart(Tail(s)) ELSE s

RECURSIVE trimEnd(_)
trimEnd(s) ==
    IF s # <<>> /\ s[Len(s)] = " " THEN trimEnd(SubSeq(s, 1, Len(s) - 1)) ELSE s

trim(s) == trimEnd(trimStart(s))

\* String.prototype.split(sep) for a one-character separator
RECURSIVE split(_, _)
split(s, sep) ==
    IF \E i \in 1..Len(s) : s[i] = sep
    THEN LET i == CHOOSE k \in 1..Len(s) :
                     s[k] = sep /\ \A j \in 1..(k - 1) : s[j] # sep
         IN  <<SubSeq(s, 1, i - 1)>> \o split(SubSeq(s, i + 1, Len(s)), sep)
    ELSE <<s>>

RECURSIVE DigitsValue(_, _)
DigitsValue(s, acc) ==
    IF s # <<>> /\ IsDigit(Head(s))
    THEN DigitsValue(Tail(s), acc * 10 + DigitVal(Head(s)))
    ELSE acc

\* Number.parseInt(s, 10): the leading digits, NaN when there are none
parseInt(s) ==
    IF s # <<>> /\ IsDigit(Head(s)) THEN DigitsValue(s, 0) ELSE NaN

RECURSIVE NatToString(_)
NatToString(n) ==
    IF n < 10 THEN <<Digits[n + 1]>>
    ELSE NatToString(n \div 10) \o <<Digits[(n % 10) + 1]>>

\* template-literal conversion of a number
NumberToString(n) == IF n = NaN THEN <<"N", "a", "N">> ELSE NatToString(n)

\* NaN + 1 is NaN
PlusOne(n) == IF n = NaN THEN NaN ELSE n + 1

\* NaN >= m is false
NumGeq(n, m) == n # NaN /\ n >= m

-----------------------------------------------------------------------------
(* Options and helpers of the plugin *)

defaultOptions == [length |-> 6, expirationMinutes |-> 5, maxAttempts |-> 3]

\* params.options as the host configures the plugin in this model
options == [expirationMinutes |-> 1]

OptionOr(name) ==
    IF name \in DOMAIN options THEN options[name] ELSE defaultOptions[name]

\* generateOtp(length): the codes the random source can return
generateOtp(length) == {c \in SampleOtps : Len(c) = length}

getExpirationDate(expirationMinutes) == now + expirationMinutes

\* mutant: the schema trims but does not lower-case
NormalizeEmail_NoLower(raw) == trim(raw)

\* the schema of both bodies: z.email().trim().toLowerCase()
NormalizeEmail(raw) == toLowerCase(trim(raw))

Identifier(email) == <<"change-email-otp-">> \o email

\* the stored value `${otp}:${attempts}`
EncodeValue(otp, attempts) == otp \o <<":">> \o NumberToString(attempts)

ERROR_CODES == [OTP_EXPIRED |-> "OTP_EXPIRED", INVALID_OTP |-> "INVALID_OTP",
                TOO_MANY_ATTEMPTS |-> "TOO_MANY_ATTEMPTS",
                EMAIL_ALREADY_EXISTS |-> "EMAIL_ALREADY_EXISTS"]

SendPath == "/change-email-otp/send"

VerifyPath == "/change-email-otp/verify"

\* the plugin's rateLimit rules; `path` is what each pathMatcher compares with
rateLimit == << [path |-> "/send-change-email-otp", window |-> 60, max |-> 3],
                [path |-> "/verify-change-email-otp", window |-> 60, max |-> 3] >>

pathMatcher(rule, path) == path = rule.path

-----------------------------------------------------------------------------
(* The host's collaborators: verification store, user directory, limiter *)

NoRecord == [id |-> 0, identifier |-> <<>>, value |-> <<>>, expiresAt |-> 0]

\* createRecord fails with a conflict when the identifier is already stored
CreateConflicts(st, identifier) == \E r \in st : r.identifier = identifier

createVerificationValue(st, id, data) ==
    st \cup {[id |-> id, identifier |-> data.identifier,
              value |-> data.value, expiresAt |-> data.expiresAt]}

findVerificationValue(st, identifier) ==
    IF \E r \in st : r.identifier = identifier
    THEN CHOOSE r \in st : r.identifier = identifier
    ELSE NoRecord

updateVerificationValue(st, id, value) ==
    {IF r.id = id THEN [r EXCEPT !.value = value] ELSE r : r \in st}

deleteVerificationValue(st, id) == {r \in st : r.id # id}

deleteVerificationByIdentifier(st, identifier) ==
    {r \in st : r.identifier # identifier}

findUserByEmail(us, email) ==
    IF \E u \in UserIds : us[u].email = email
    THEN CHOOSE u \in UserIds : us[u].email = email
    ELSE NoUser

updateUser(us, id, data) ==
    [us EXCEPT ![id] = [email |-> data.email, emailVerified |-> data.emailVerified]]

\* the rules of the plugin that match a request path
MatchingRules(path) ==
    {i \in 1..Len(rateLimit) : pathMatcher(rateLimit[i], path)}

\* the limiter rejects a request once a matching rule has counted `max`
\* requests in its window
RateLimited(path) ==
    \E i \in MatchingRules(path) : rl[i] >= rateLimit[i].max

CountRequest(path) ==
    [i \in 1..Len(rateLimit) |->
        IF i \in MatchingRules(path) /\ rl[i] < rateLimit[i].max
        THEN rl[i] + 1 ELSE rl[i]]

\* a window of the rules, in clock steps of one minute
WindowTicks(rule) == rule.window \div 60

-----------------------------------------------------------------------------
(* Requests *)

Undefined == <<>>

IdleSlot ==
    [pc |-> "idle", kind |-> "none", user |-> NoUser, email |-> <<>>,
     otp |-> <<>>, expiresAt |-> 0, rec |-> NoRecord, storedOtp |-> <<>>,
     storedOtpAttempts |-> Undefined, sent |-> <<>>, result |-> "NONE"]

NormEmails == {NormalizeEmail(raw) : raw \in RawEmails}

\* Record ids are opaque handles: the store hands out one that neither a
\* stored record nor a request in flight holds.
RecordIds == 1..(Cardinality(NormEmails) + Cardinality(Slots))

FreshId ==
    CHOOSE i \in RecordIds :
        /\ \A r \in store : r.id # i
        /\ \A s \in Slots : slots[s].rec.id # i
        /\ \A j \in 1..(i - 1) :
              \/ \E r \in store : r.id = j
              \/ \E s \in Slots : slots[s].rec.id = j

\* a request is given the lowest free slot
FreeSlot(s) ==
    /\ slots[s].pc = "idle"
    /\ \A t \in Slots : t < s => slots[t].pc # "idle"

\* the response of a request; the locals of its handler are gone
Finish(sl, result) ==
    [IdleSlot EXCEPT !.pc = "done", !.kind = sl.kind, !.user = sl.user,
                     !.email = sl.email, !.otp = sl.otp, !.sent = sl.sent,
                     !.result = result]

\* mutant: every caller is taken to have a session
NoSession_Never(u) == FALSE

\* !ctx.context.session
NoSession(u) == u = NoUser

\* mutant: the result of the lookup is never seen as a user
emailAlreadyExists_Never(email) == FALSE

\* const emailAlreadyExists = await findUserByEmail(email)
emailAlreadyExists(email) == findUserByEmail(users, email) # NoUser

\* POST /change-email-otp/send up to its first awaited call: the limiter, the
\* session check, createOtp and findUserByEmail
BeginSend(s, u, raw) ==
    /\ FreeSlot(s)
    /\ rl' = CountRequest(SendPath)
    /\ LET email == NormalizeEmail(raw)
           base  == [IdleSlot EXCEPT !.kind = "send", !.user = u,
                                     !.email = email]
       IN  IF RateLimited(SendPath)
           THEN slots' = [slots EXCEPT ![s] = Finish(base, "TOO_MANY_REQUESTS")]
           ELSE IF NoSession(u)
           THEN slots' = [slots EXCEPT ![s] = Finish(base, "UNAUTHORIZED")]
           ELSE IF emailAlreadyExists(email)
           THEN slots' = [slots EXCEPT ![s] =
                            Finish(base, ERROR_CODES.EMAIL_ALREADY_EXISTS)]
           ELSE \E otp \in generateOtp(OptionOr("length")) :
                    slots' = [slots EXCEPT ![s] =
                        [base EXCEPT !.pc = "create1", !.otp = otp,
                            !.expiresAt =
                                getExpirationDate(OptionOr("expirationMinutes"))]]
    /\ UNCHANGED <<now, users, store>>

NewRecordData(sl) ==
    [identifier |-> Identifier(sl.email), value |-> EncodeValue(sl.otp, 0),
     expiresAt |-> sl.expiresAt]

\* mutant: the catch swallows the conflict and the handler goes on to notify
Create1_IgnoreConflict(s) ==
    /\ slots[s].pc = "create1"
    /\ IF CreateConflicts(store, Identifier(slots[s].email))
       THEN /\ slots' = [slots EXCEPT ![s].pc = "notify"]
            /\ UNCHANGED store
       ELSE /\ store' = createVerificationValue(store, FreshId,
                                                NewRecordData(slots[s]))
            /\ slots' = [slots EXCEPT ![s].pc = "notify"]
    /\ UNCHANGED <<now, users, rl>>

\* the first createVerificationValue
Create1(s) ==
    /\ slots[s].pc = "create1"
    /\ IF CreateConflicts(store, Identifier(slots[s].email))
       THEN /\ slots' = [slots EXCEPT ![s].pc = "deleteByIdentifier"]
            /\ UNCHANGED store
       ELSE /\ store' = createVerificationValue(store, FreshId,
                                                NewRecordData(slots[s]))
            /\ slots' = [slots EXCEPT ![s].pc = "notify"]
    /\ UNCHANGED <<now, users, rl>>

\* .catch: deleteVerificationByIdentifier
DeleteByIdentifier(s) ==
    /\ slots[s].pc = "deleteByIdentifier"
    /\ store' = deleteVerificationByIdentifier(store, Identifier(slots[s].email))
    /\ slots' = [slots EXCEPT ![s].pc = "create2"]
    /\ UNCHANGED <<now, users, rl>>

\* mutant: a conflict of the second create starts the replacement again
Create2_Retry(s) ==
    /\ slots[s].pc = "create2"
    /\ IF CreateConflicts(store, Identifier(slots[s].email))
       THEN /\ slots' = [slots EXCEPT ![s].pc = "deleteByIdentifier"]
            /\ UNCHANGED store
       ELSE /\ store' = createVerificationValue(store, FreshId,
                                                NewRecordData(slots[s]))
            /\ slots' = [slots EXCEPT ![s].pc = "notify"]
    /\ UNCHANGED <<now, users, rl>>

\* mutant: a conflict of the second create is swallowed
Create2_IgnoreConflict(s) ==
    /\ slots[s].pc = "create2"
    /\ IF CreateConflicts(store, Identifier(slots[s].email))
       THEN /\ slots' = [slots EXCEPT ![s].pc = "notify"]
            /\ UNCHANGED store
       ELSE /\ store' = createVerificationValue(store, FreshId,
                                                NewRecordData(slots[s]))
            /\ slots' = [slots EXCEPT ![s].pc = "notify"]
    /\ UNCHANGED <<now, users, rl>>

\* .catch: the second createVerificationValue; its failure is not caught
Create2(s) ==
    /\ slots[s].pc = "create2"
    /\ IF CreateConflicts(store, Identifier(slots[s].email))
       THEN /\ slots' = [slots EXCEPT ![s] = Finish(@, "STORE_ERROR")]
            /\ UNCHANGED store
       ELSE /\ store' = createVerificationValue(store, FreshId,
                                                NewRecordData(slots[s]))
            /\ slots' = [slots EXCEPT ![s].pc = "notify"]
    /\ UNCHANGED <<now, users, rl>>

\* params.sendChangeEmailOTP({ email, otp }), then the success response
Notify(s) ==
    /\ slots[s].pc = "notify"
    /\ slots' = [slots EXCEPT ![s] =
                   Finish([@ EXCEPT !.sent = Append(@, [email |-> slots[s].email,
                                                        otp |-> slots[s].otp])],
                          "SUCCESS")]
    /\ UNCHANGED <<now, users, store, rl>>

\* mutant: a failed notification takes the record back
NotifyFails_Rollback(s) ==
    /\ slots[s].pc = "notify"
    /\ store' = deleteVerificationByIdentifier(store, Identifier(slots[s].email))
    /\ slots' = [slots EXCEPT ![s] = Finish(@, "NOTIFIER_ERROR")]
    /\ UNCHANGED <<now, users, rl>>

\* params.sendChangeEmailOTP rejects: the handler has no catch around it, the
\* request fails and nothing is sent
NotifyFails(s) ==
    /\ slots[s].pc = "notify"
    /\ slots' = [slots EXCEPT ![s] = Finish(@, "NOTIFIER_ERROR")]
    /\ UNCHANGED <<now, users, store, rl>>

-----------------------------------------------------------------------------
(* POST /change-email-otp/verify *)

\* the second element of the destructured split, undefined when there is none
SecondOf(parts) == IF Len(parts) >= 2 THEN parts[2] ELSE Undefined

\* a string is truthy when it is defined and not empty
Truthy(str) == str # Undefined

\* mutant: a record that expires now is already expired
Expired_Leq(rec, t) == rec.expiresAt <= t

\* verificationValue.expiresAt < new Date()
Expired(rec, t) == rec.expiresAt < t

\* mutant: the limit is compared with > instead of >=
AttemptsExhausted_Gt(storedOtpAttempts) ==
    /\ Truthy(storedOtpAttempts)
    /\ parseInt(storedOtpAttempts) > OptionOr("maxAttempts")

\* the attempt check: storedOtpAttempts && parseInt(storedOtpAttempts) >= allowed
AttemptsExhausted(storedOtpAttempts) ==
    /\ Truthy(storedOtpAttempts)
    /\ NumGeq(parseInt(storedOtpAttempts), OptionOr("maxAttempts"))

\* mutant: the attempt check is made before the expiry check
VerifyBranch_AttemptsFirst(rec, t, otp) ==
    LET parts == split(rec.value, ":")
    IN  IF rec = NoRecord THEN "missing"
        ELSE IF AttemptsExhausted(SecondOf(parts)) THEN "exhausted"
        ELSE IF Expired(rec, t) THEN "expired"
        ELSE IF parts[1] # otp THEN "mismatch"
        ELSE "match"

\* the branch the handler takes after findVerificationValue has answered
VerifyBranch(rec, t, otp) ==
    LET parts == split(rec.value, ":")
    IN  IF rec = NoRecord THEN "missing"
        ELSE IF Expired(rec, t) THEN "expired"
        ELSE IF AttemptsExhausted(SecondOf(parts)) THEN "exhausted"
        ELSE IF parts[1] # otp THEN "mismatch"
        ELSE "match"

\* the handler up to its second awaited call: the limiter, the session check,
\* findVerificationValue, and the checks made on its answer
BeginVerify(s, u, raw, otp) ==
    /\ FreeSlot(s)
    /\ rl' = CountRequest(VerifyPath)
    /\ LET email  == NormalizeEmail(raw)
           rec    == findVerificationValue(store, Identifier(email))
           parts  == split(rec.value, ":")
           branch == VerifyBranch(rec, now, otp)
           base   == [IdleSlot EXCEPT !.kind = "verify", !.user = u,
                        !.email = email, !.otp = otp]
           read   == [base EXCEPT !.rec = rec, !.storedOtp = parts[1],
                        !.storedOtpAttempts = SecondOf(parts)]
       IN  slots' = [slots EXCEPT ![s] =
                IF RateLimited(VerifyPath) THEN Finish(base, "TOO_MANY_REQUESTS")
                ELSE IF NoSession(u) THEN Finish(base, "UNAUTHORIZED")
                ELSE CASE branch = "missing" ->
                            Finish(base, ERROR_CODES.INVALID_OTP)
                       [] branch = "expired" ->
                            Finish(read, ERROR_CODES.OTP_EXPIRED)
                       [] branch = "exhausted" ->
                            [read EXCEPT !.pc = "deleteExhausted"]
                       [] branch = "mismatch" -> [read EXCEPT !.pc = "update"]
                       [] branch = "match" ->
                            [read EXCEPT !.pc = "deleteMatched"]]
    /\ UNCHANGED <<now, users, store>>

\* mutant: the exhausted record is left in the store
DeleteExhausted_Keep(s) ==
    /\ slots[s].pc = "deleteExhausted"
    /\ slots' = [slots EXCEPT ![s] = Finish(@, ERROR_CODES.TOO_MANY_ATTEMPTS)]
    /\ UNCHANGED <<now, users, store, rl>>

\* attempts exhausted: deleteVerificationValue, then TOO_MANY_ATTEMPTS
DeleteExhausted(s) ==
    /\ slots[s].pc = "deleteExhausted"
    /\ store' = deleteVerificationValue(store, slots[s].rec.id)
    /\ slots' = [slots EXCEPT ![s] = Finish(@, ERROR_CODES.TOO_MANY_ATTEMPTS)]
    /\ UNCHANGED <<now, users, rl>>

\* the value a mismatch writes back
IncrementedValue(sl) ==
    sl.storedOtp \o <<":">> \o
        NumberToString(PlusOne(parseInt(sl.storedOtpAttempts)))

\* mutant: a mismatch also writes the submitted email to the caller's user
Update_TouchesUser(s) ==
    /\ slots[s].pc = "update"
    /\ store' = updateVerificationValue(store, slots[s].rec.id,
                                        IncrementedValue(slots[s]))
    /\ users' = updateUser(users, slots[s].user,
                           [email |-> slots[s].email, emailVerified |-> FALSE])
    /\ slots' = [slots EXCEPT ![s] = Finish(@, ERROR_CODES.INVALID_OTP)]
    /\ UNCHANGED <<now, rl>>

\* code mismatch: updateVerificationValue, then INVALID_OTP
Update(s) ==
    /\ slots[s].pc = "update"
    /\ store' = updateVerificationValue(store, slots[s].rec.id,
                                        IncrementedValue(slots[s]))
    /\ slots' = [slots EXCEPT ![s] = Finish(@, ERROR_CODES.INVALID_OTP)]
    /\ UNCHANGED <<now, users, rl>>

\* mutant: the record is not deleted on a match
DeleteMatched_NoDelete(s) ==
    /\ slots[s].pc = "deleteMatched"
    /\ slots' = [slots EXCEPT ![s].pc = "updateUser"]
    /\ UNCHANGED <<now, users, store, rl>>

\* code match: deleteVerificationValue
DeleteMatched(s) ==
    /\ slots[s].pc = "deleteMatched"
    /\ store' = deleteVerificationValue(store, slots[s].rec.id)
    /\ slots' = [slots EXCEPT ![s].pc = "updateUser"]
    /\ UNCHANGED <<now, users, rl>>

\* mutant: the update leaves emailVerified out
UpdateUser_Unverified(s) ==
    /\ slots[s].pc = "updateUser"
    /\ users' = updateUser(users, slots[s].user,
                           [email |-> slots[s].email,
                            emailVerified |-> users[slots[s].user].emailVerified])
    /\ slots' = [slots EXCEPT ![s] = Finish(@, "SUCCESS")]
    /\ UNCHANGED <<now, store, rl>>

\* mutant: the update is applied to every user of the directory
UpdateUser_Everyone(s) ==
    /\ slots[s].pc = "updateUser"
    /\ users' = [u \in UserIds |->
                   [email |-> slots[s].email, emailVerified |-> TRUE]]
    /\ slots' = [slots EXCEPT ![s] = Finish(@, "SUCCESS")]
    /\ UNCHANGED <<now, store, rl>>

\* code match: updateUser, then the success response
UpdateUser(s) ==
    /\ slots[s].pc = "updateUser"
    /\ users' = updateUser(users, slots[s].user,
                           [email |-> slots[s].email, emailVerified |-> TRUE])
    /\ slots' = [slots EXCEPT ![s] = Finish(@, "SUCCESS")]
    /\ UNCHANGED <<now, store, rl>>

\* mutant: the failed update has written the email before it failed
UpdateUserFails_Partial(s) ==
    /\ slots[s].pc = "updateUser"
    /\ users' = updateUser(users, slots[s].user,
                           [email |-> slots[s].email,
                            emailVerified |-> users[slots[s].user].emailVerified])
    /\ slots' = [slots EXCEPT ![s] = Finish(@, "DIRECTORY_ERROR")]
    /\ UNCHANGED <<now, store, rl>>

\* code match: updateUser rejects; the handler has no catch around it, the
\* request fails after the record has been deleted
UpdateUserFails(s) ==
    /\ slots[s].pc = "updateUser"
    /\ slots' = [slots EXCEPT ![s] = Finish(@, "DIRECTORY_ERROR")]
    /\ UNCHANGED <<now, users, store, rl>>

\* the response has reached the client; the slot is free again
Return(s) ==
    /\ slots[s].pc = "done"
    /\ slots' = [slots EXCEPT ![s] = IdleSlot]
    /\ UNCHANGED <<now, users, store, rl>>

\* a minute passes; the limiter's windows of one minute start afresh
Tick ==
    /\ now < MaxTime
    /\ now' = now + 1
    /\ rl' = [i \in 1..Len(rateLimit) |->
                IF WindowTicks(rateLimit[i]) <= 1 THEN 0 ELSE rl[i]]
    /\ UNCHANGED <<users, store, slots>>

-----------------------------------------------------------------------------
(* History of the calls, for the properties of sequential executions *)

NoHist ==
    [rules |-> {}, at |-> 0, seen |-> NoRecord, widx |-> 0, sawPrev |-> <<>>,
     reused |-> FALSE, taken |-> FALSE, replacedOtp |-> <<>>, nth |-> 0,
     undelivered |-> FALSE, locked |-> <<>>]

CodeOf(rec) == split(rec.value, ":")[1]

HasRecord(st, email) == \E r \in st : r.identifier = Identifier(email)

RecordOf(st, email) == CHOOSE r \in st : r.identifier = Identifier(email)

\* the call of slot s has arrived in this step
Arrived(s) == slots[s].pc = "idle" /\ slots'[s].pc # "idle"

\* the call of slot s has created its record in this step
CreatedBy(s) == slots[s].pc \in {"create1", "create2"} /\ slots'[s].pc = "notify"

\* the call of slot s has submitted a wrong code to a record that is not expired
WrongOnLive(s) ==
    /\ Arrived(s) /\ slots'[s].kind = "verify" /\ slots'[s].user # NoUser
    /\ HasRecord(store, slots'[s].email)
    /\ ~(RecordOf(store, slots'[s].email).expiresAt < now)
    /\ CodeOf(RecordOf(store, slots'[s].email)) # slots'[s].otp

\* what a step of slot s adds to the history
Observe(s) ==
    LET e == IF slots'[s].pc = "idle" THEN slots[s].email ELSE slots'[s].email
    IN  /\ hist' = [hist EXCEPT ![s] =
              IF Arrived(s)
              THEN [NoHist EXCEPT
                      !.rules = MatchingRules(IF slots'[s].kind = "send"
                                              THEN SendPath ELSE VerifyPath),
                      !.at = now,
                      !.seen = IF HasRecord(store, e) THEN RecordOf(store, e)
                               ELSE NoRecord,
                      !.widx = IF WrongOnLive(s) THEN wrongSub[e] + 1 ELSE 0,
                      !.sawPrev = prevCode[e],
                      !.reused = (consumed[e] = slots'[s].otp),
                      !.taken = (\E u \in UserIds : users[u].email = e),
                      !.undelivered = undelivered[e],
                      !.locked = exhausted[e]]
              ELSE IF slots'[s].pc = "idle" THEN NoHist
              ELSE IF slots[s].pc = "deleteByIdentifier"
              THEN [@ EXCEPT !.replacedOtp =
                       IF HasRecord(store, e) THEN CodeOf(RecordOf(store, e))
                       ELSE <<>>]
              ELSE @]
        /\ owner' = IF CreatedBy(s) THEN [owner EXCEPT ![e] = slots[s].user]
                    ELSE owner
        /\ wrongSub' = [x \in NormEmails |->
              IF ~HasRecord(store', x) \/ (x = e /\ CreatedBy(s)) THEN 0
              ELSE IF x = e /\ WrongOnLive(s) THEN wrongSub[x] + 1
              ELSE wrongSub[x]]
        /\ prevCode' = [x \in NormEmails |->
              IF ~HasRecord(store', x) THEN <<>>
              ELSE IF x = e /\ CreatedBy(s) THEN hist[s].replacedOtp
              ELSE prevCode[x]]
        /\ consumed' = [x \in NormEmails |->
              IF x = e /\ CreatedBy(s) THEN <<>>
              ELSE IF x = e /\ slots[s].pc = "updateUser" THEN slots[s].otp
              ELSE consumed[x]]
        /\ undelivered' = [x \in NormEmails |->
              IF ~HasRecord(store', x) \/ (x = e /\ CreatedBy(s)) THEN FALSE
              ELSE IF x = e /\ slots[s].pc = "notify"
              THEN slots'[s].result = "NOTIFIER_ERROR"
              ELSE undelivered[x]]
        /\ exhausted' = [x \in NormEmails |->
              IF x = e /\ CreatedBy(s) THEN <<>>
              ELSE IF x = e /\ slots[s].pc = "deleteExhausted"
              THEN slots[s].storedOtp
              ELSE exhausted[x]]

-----------------------------------------------------------------------------
(* Specifications *)

Init ==
    /\ now = 0
    /\ users = [u \in UserIds |->
                  IF u = "u1"
                  THEN [email |-> <<"p", "@", "x">>, emailVerified |-> FALSE]
                  ELSE [email |-> <<"q", "@", "x">>, emailVerified |-> FALSE]]
    /\ store = {}
    /\ rl = [i \in 1..Len(rateLimit) |-> 0]
    /\ slots = [s \in Slots |-> IdleSlot]
    /\ hist = [s \in Slots |-> NoHist]
    /\ owner = [e \in NormEmails |-> NoUser]
    /\ wrongSub = [e \in NormEmails |-> 0]
    /\ prevCode = [e \in NormEmails |-> <<>>]
    /\ consumed = [e \in NormEmails |-> <<>>]
    /\ undelivered = [e \in NormEmails |-> FALSE]
    /\ exhausted = [e \in NormEmails |-> <<>>]
    /\ arrived = [p \in {SendPath, VerifyPath} |-> 0]
    /\ compared = [e \in NormEmails |-> 0]

Callers == UserIds \cup {NoUser}

AllIdle == \A s \in Slots : slots[s].pc = "idle"

\* one request at a time: a request arrives when none is in flight
Next ==
    \/ \E s \in Slots, u \in Callers, raw \in RawEmails :
          AllIdle /\ BeginSend(s, u, raw) /\ Observe(s) /\ UNCHANGED counters
    \/ \E s \in Slots, u \in Callers, raw \in RawEmails, otp \in SampleOtps :
          AllIdle /\ BeginVerify(s, u, raw, otp) /\ Observe(s)
                  /\ UNCHANGED counters
    \/ \E s \in Slots : Create1(s) /\ Observe(s) /\ UNCHANGED counters
    \/ \E s \in Slots : DeleteByIdentifier(s) /\ Observe(s) /\ UNCHANGED counters
    \/ \E s \in Slots : Create2(s) /\ Observe(s) /\ UNCHANGED counters
    \/ \E s \in Slots : Notify(s) /\ Observe(s) /\ UNCHANGED counters
    \/ \E s \in Slots : DeleteExhausted(s) /\ Observe(s) /\ UNCHANGED counters
    \/ \E s \in Slots : Update(s) /\ Observe(s) /\ UNCHANGED counters
    \/ \E s \in Slots : DeleteMatched(s) /\ Observe(s) /\ UNCHANGED counters
    \/ \E s \in Slots : UpdateUser(s) /\ Observe(s) /\ UNCHANGED counters
    \/ \E s \in Slots : Return(s) /\ Observe(s) /\ UNCHANGED counters
    \/ Tick /\ UNCHANGED <<history, counters>>

Spec == Init /\ [][Next]_vars

\* the addresses the interleaved requests contend for
ContendedEmails == { <<"n", "@", "x">>, <<"N", "@", "x">> }

Quiet == UNCHANGED <<history, counters>>

\* requests arrive at any time and interleave at their awaited calls; the
\* requests that race do so within one minute of the clock
NextConc ==
    \/ \E s \in Slots, u \in UserIds, raw \in ContendedEmails :
          BeginSend(s, u, raw) /\ Quiet
    \/ \E s \in Slots, u \in UserIds, raw \in ContendedEmails,
          otp \in SampleOtps : BeginVerify(s, u, raw, otp) /\ Quiet
    \/ \E s \in Slots : Create1(s) /\ Quiet
    \/ \E s \in Slots : DeleteByIdentifier(s) /\ Quiet
    \/ \E s \in Slots : Create2(s) /\ Quiet
    \/ \E s \in Slots : Notify(s) /\ Quiet
    \/ \E s \in Slots : DeleteExhausted(s) /\ Quiet
    \/ \E s \in Slots : Update(s) /\ Quiet
    \/ \E s \in Slots : DeleteMatched(s) /\ Quiet
    \/ \E s \in Slots : UpdateUser(s) /\ Quiet
    \/ \E s \in Slots : Return(s) /\ Quiet

SpecConc == Init /\ [][NextConc]_vars

\* what the arrival of a call at `path` adds to the count of its minute
ObserveArrival(s, path) ==
    /\ arrived' = [arrived EXCEPT ![path] = @ + 1]
    /\ hist' = [hist EXCEPT ![s] =
                  [NoHist EXCEPT !.rules = MatchingRules(path), !.at = now,
                                 !.nth = arrived[path] + 1]]
    /\ UNCHANGED <<owner, wrongSub, prevCode, consumed, undelivered,
                   exhausted, compared>>

\* the requests one client can make in a minute
MaxPerMinute == 4

\* the address of the requests that test the limiter; it belongs to a user
TakenEmails == { <<"q", "@", "x">> }

\* requests that reach the limiter one after another, up to MaxPerMinute to
\* each endpoint in a minute
NextRate ==
    \/ \E s \in Slots, u \in Callers, raw \in TakenEmails :
          /\ AllIdle /\ arrived[SendPath] < MaxPerMinute
          /\ BeginSend(s, u, raw) /\ ObserveArrival(s, SendPath)
    \/ \E s \in Slots, u \in Callers, raw \in TakenEmails, otp \in SampleOtps :
          /\ AllIdle /\ arrived[VerifyPath] < MaxPerMinute
          /\ BeginVerify(s, u, raw, otp) /\ ObserveArrival(s, VerifyPath)
    \/ \E s \in Slots : Return(s) /\ Observe(s) /\ UNCHANGED counters
    \/ Tick /\ arrived' = [p \in DOMAIN arrived |-> 0]
            /\ UNCHANGED <<history, compared>>

SpecRate == Init /\ [][NextRate]_vars

\* the comparisons one record is followed through
MaxCompared == 4

\* the call of slot s has had its code compared with the stored code
Compared(s) == Arrived(s) /\ slots'[s].pc \in {"update", "deleteMatched"}

\* what a step of slot s adds to the count of comparisons of its record
ObserveCompared(s) ==
    LET e == IF slots'[s].pc = "idle" THEN slots[s].email ELSE slots'[s].email
    IN  /\ compared' = [x \in NormEmails |->
              IF ~HasRecord(store', x) \/ (x = e /\ CreatedBy(s)) THEN 0
              ELSE IF x = e /\ Compared(s) THEN compared[x] + 1
              ELSE compared[x]]
        /\ UNCHANGED <<history, arrived>>

\* interleaved requests, with the comparisons of each record counted
NextGuess ==
    \/ \E s \in Slots, u \in UserIds, raw \in ContendedEmails :
          BeginSend(s, u, raw) /\ ObserveCompared(s)
    \/ \E s \in Slots, u \in UserIds, raw \in ContendedEmails,
          otp \in SampleOtps :
          /\ compared[NormalizeEmail(raw)] < MaxCompared
          /\ BeginVerify(s, u, raw, otp) /\ ObserveCompared(s)
    \/ \E s \in Slots : Create1(s) /\ ObserveCompared(s)
    \/ \E s \in Slots : DeleteByIdentifier(s) /\ ObserveCompared(s)
    \/ \E s \in Slots : Create2(s) /\ ObserveCompared(s)
    \/ \E s \in Slots : Notify(s) /\ ObserveCompared(s)
    \/ \E s \in Slots : DeleteExhausted(s) /\ ObserveCompared(s)
    \/ \E s \in Slots : Update(s) /\ ObserveCompared(s)
    \/ \E s \in Slots : DeleteMatched(s) /\ ObserveCompared(s)
    \/ \E s \in Slots : UpdateUser(s) /\ ObserveCompared(s)
    \/ \E s \in Slots : Return(s) /\ ObserveCompared(s)

SpecGuess == Init /\ [][NextGuess]_vars

\* stored values of records that another writer or an earlier version has
\* left: without a counter, with an empty one, with one that is no number,
\* and with the counter `0` the plugin writes
LegacyValues ==
    UNION { { otp, otp \o <<":">>, otp \o <<":", "x">>, otp \o <<":", "0">> } :
            otp \in SampleOtps }

\* the wrong codes one record is followed through
MaxWrong == 4

InitLegacy ==
    /\ now = 0
    /\ users = [u \in UserIds |->
                  IF u = "u1"
                  THEN [email |-> <<"p", "@", "x">>, emailVerified |-> FALSE]
                  ELSE [email |-> <<"q", "@", "x">>, emailVerified |-> FALSE]]
    /\ \E v \in LegacyValues :
          store = {[id |-> 1, identifier |-> Identifier(<<"n", "@", "x">>),
                    value |-> v,
                    expiresAt |-> OptionOr("expirationMinutes")]}
    /\ rl = [i \in 1..Len(rateLimit) |-> 0]
    /\ slots = [s \in Slots |-> IdleSlot]
    /\ hist = [s \in Slots |-> NoHist]
    /\ owner = [e \in NormEmails |-> NoUser]
    /\ wrongSub = [e \in NormEmails |-> 0]
    /\ prevCode = [e \in NormEmails |-> <<>>]
    /\ consumed = [e \in NormEmails |-> <<>>]
    /\ undelivered = [e \in NormEmails |-> FALSE]
    /\ exhausted = [e \in NormEmails |-> <<>>]
    /\ arrived = [p \in {SendPath, VerifyPath} |-> 0]
    /\ compared = [e \in NormEmails |-> 0]

\* ConfirmChange calls, one at a time, on a record found in the store
NextLegacy ==
    \/ \E s \in Slots, u \in UserIds, raw \in ContendedEmails,
          otp \in SampleOtps :
          /\ AllIdle /\ wrongSub[NormalizeEmail(raw)] < MaxWrong
          /\ BeginVerify(s, u, raw, otp) /\ Observe(s) /\ UNCHANGED counters
    \/ \E s \in Slots : DeleteExhausted(s) /\ Observe(s) /\ UNCHANGED counters
    \/ \E s \in Slots : Update(s) /\ Observe(s) /\ UNCHANGED counters
    \/ \E s \in Slots : DeleteMatched(s) /\ Observe(s) /\ UNCHANGED counters
    \/ \E s \in Slots : UpdateUser(s) /\ Observe(s) /\ UNCHANGED counters
    \/ \E s \in Slots : Return(s) /\ Observe(s) /\ UNCHANGED counters
    \/ Tick /\ UNCHANGED <<history, counters>>

SpecLegacy == InitLegacy /\ [][NextLegacy]_vars

\* one request at a time for the contended address, with a notifier that
\* can fail
NextFault ==
    \/ \E s \in Slots, u \in UserIds, raw \in ContendedEmails :
          AllIdle /\ BeginSend(s, u, raw) /\ Observe(s) /\ UNCHANGED counters
    \/ \E s \in Slots, u \in UserIds, raw \in ContendedEmails,
          otp \in SampleOtps :
          AllIdle /\ BeginVerify(s, u, raw, otp) /\ Observe(s)
                  /\ UNCHANGED counters
    \/ \E s \in Slots : Create1(s) /\ Observe(s) /\ UNCHANGED counters
    \/ \E s \in Slots : DeleteByIdentifier(s) /\ Observe(s)
                         /\ UNCHANGED counters
    \/ \E s \in Slots : Create2(s) /\ Observe(s) /\ UNCHANGED counters
    \/ \E s \in Slots : Notify(s) /\ Observe(s) /\ UNCHANGED counters
    \/ \E s \in Slots : NotifyFails(s) /\ Observe(s) /\ UNCHANGED counters
    \/ \E s \in Slots : DeleteExhausted(s) /\ Observe(s) /\ UNCHANGED counters
    \/ \E s \in Slots : Update(s) /\ Observe(s) /\ UNCHANGED counters
    \/ \E s \in Slots : DeleteMatched(s) /\ Observe(s) /\ UNCHANGED counters
    \/ \E s \in Slots : UpdateUser(s) /\ Observe(s) /\ UNCHANGED counters
    \/ \E s \in Slots : Return(s) /\ Observe(s) /\ UNCHANGED counters
    \/ Tick /\ UNCHANGED <<history, counters>>

SpecFault == Init /\ [][NextFault]_vars

\* one request at a time for the contended address, with a user directory
\* whose update can fail
NextDirectory ==
    \/ \E s \in Slots, u \in UserIds, raw \in ContendedEmails :
          AllIdle /\ BeginSend(s, u, raw) /\ Observe(s) /\ UNCHANGED counters
    \/ \E s \in Slots, u \in UserIds, raw \in ContendedEmails,
          otp \in SampleOtps :
          AllIdle /\ BeginVerify(s, u, raw, otp) /\ Observe(s)
                  /\ UNCHANGED counters
    \/ \E s \in Slots : Create1(s) /\ Observe(s) /\ UNCHANGED counters
    \/ \E s \in Slots : DeleteByIdentifier(s) /\ Observe(s)
                         /\ UNCHANGED counters
    \/ \E s \in Slots : Create2(s) /\ Observe(s) /\ UNCHANGED counters
    \/ \E s \in Slots : Notify(s) /\ Observe(s) /\ UNCHANGED counters
    \/ \E s \in Slots : DeleteExhausted(s) /\ Observe(s) /\ UNCHANGED counters
    \/ \E s \in Slots : Update(s) /\ Observe(s) /\ UNCHANGED counters
    \/ \E s \in Slots : DeleteMatched(s) /\ Observe(s) /\ UNCHANGED counters
    \/ \E s \in Slots : UpdateUser(s) /\ Observe(s) /\ UNCHANGED counters
    \/ \E s \in Slots : UpdateUserFails(s) /\ Observe(s) /\ UNCHANGED counters
    \/ \E s \in Slots : Return(s) /\ Observe(s) /\ UNCHANGED counters
    \/ Tick /\ UNCHANGED <<history, counters>>

SpecDirectory == Init /\ [][NextDirectory]_vars

-----------------------------------------------------------------------------
(* Properties *)

maxAttempts == OptionOr("maxAttempts")

Done(s) == slots[s].pc = "done"

\* a ConfirmChange of an authenticated caller that has returned
Confirmed(s) ==
    Done(s) /\ slots[s].kind = "verify" /\ slots[s].user # NoUser

\* a RequestChange of an authenticated caller that has returned
Requested(s) ==
    Done(s) /\ slots[s].kind = "send" /\ slots[s].user # NoUser

Found(s) == hist[s].seen # NoRecord

AttemptsOf(rec) == parseInt(split(rec.value, ":")[2])

\* the record the call met was expired when the call looked at it
MetExpired(s) == Found(s) /\ hist[s].seen.expiresAt < hist[s].at

MetLive(s) == Found(s) /\ ~(hist[s].seen.expiresAt < hist[s].at)

MetExhausted(s) == MetLive(s) /\ AttemptsOf(hist[s].seen) >= maxAttempts

MetUsable(s) == MetLive(s) /\ AttemptsOf(hist[s].seen) < maxAttempts

\* C1: ConfirmChange checks existence, then expiry, then attempt exhaustion,
\* then code equality, and returns the error of the first check that fails:
\* a missing record gives INVALID_OTP, an expired one OTP_EXPIRED whatever its
\* attempt count, a live one at the attempt limit TOO_MANY_ATTEMPTS whatever
\* the submitted code, a live usable one with another code INVALID_OTP.
C1_CheckOrder ==
    \A s \in Slots : Confirmed(s) =>
        /\ ~Found(s) => slots[s].result = "INVALID_OTP"
        /\ MetExpired(s) => slots[s].result = "OTP_EXPIRED"
        /\ MetExhausted(s) => slots[s].result = "TOO_MANY_ATTEMPTS"
        /\ MetUsable(s) /\ CodeOf(hist[s].seen) # slots[s].otp
              => slots[s].result = "INVALID_OTP"

\* an expired record at the attempt limit has answered OTP_EXPIRED
C1_Witness ==
    \E s \in Slots :
        /\ Confirmed(s) /\ MetExpired(s)
        /\ AttemptsOf(hist[s].seen) >= maxAttempts
        /\ slots[s].result = "OTP_EXPIRED"

\* the record of the call's email as it is stored now
Stored(s) == RecordOf(store, slots[s].email)

\* C2 as claimed: of the wrong-code calls on a fresh live record the first
\* maxAttempts - 1 return INVALID_OTP and leave the attempt count at 1, 2, ...,
\* and the maxAttempts-th returns TOO_MANY_ATTEMPTS and deletes the record.
C2_AsClaimed ==
    \A s \in Slots : Confirmed(s) /\ hist[s].widx > 0 =>
        /\ hist[s].widx < maxAttempts =>
              /\ slots[s].result = "INVALID_OTP"
              /\ HasRecord(store, slots[s].email)
              /\ AttemptsOf(Stored(s)) = hist[s].widx
        /\ hist[s].widx = maxAttempts =>
              /\ slots[s].result = "TOO_MANY_ATTEMPTS"
              /\ ~HasRecord(store, slots[s].email)

\* C2 amended: the first maxAttempts wrong-code calls on a fresh live record
\* return INVALID_OTP and leave the attempt count at 1, 2, ..., maxAttempts;
\* the next wrong-code call returns TOO_MANY_ATTEMPTS and deletes the record.
C2_WrongCodeSequence ==
    \A s \in Slots : Confirmed(s) /\ hist[s].widx > 0 =>
        /\ hist[s].widx <= maxAttempts =>
              /\ slots[s].result = "INVALID_OTP"
              /\ HasRecord(store, slots[s].email)
              /\ AttemptsOf(Stored(s)) = hist[s].widx
        /\ hist[s].widx = maxAttempts + 1 =>
              /\ slots[s].result = "TOO_MANY_ATTEMPTS"
              /\ ~HasRecord(store, slots[s].email)
        /\ hist[s].widx <= maxAttempts + 1

\* the wrong-code call after maxAttempts wrong-code calls has returned
C2_Witness ==
    \E s \in Slots :
        /\ Confirmed(s) /\ hist[s].widx = maxAttempts + 1
        /\ slots[s].result = "TOO_MANY_ATTEMPTS"

\* the call met a record that replaced one with another code
MetReplacement(s) ==
    Found(s) /\ hist[s].sawPrev # <<>> /\ hist[s].sawPrev # CodeOf(hist[s].seen)

\* C3: when a RequestChange replaces the record of an earlier one for the same
\* email, the record it leaves has its own code and attempt count 0 whatever
\* the count of the replaced record, a ConfirmChange with the replaced code
\* does not succeed, and one with the new code succeeds.
C3_Replacement ==
    \A s \in Slots :
        /\ Requested(s) /\ slots[s].result = "SUCCESS" /\ Found(s) =>
              /\ HasRecord(store, slots[s].email)
              /\ Stored(s).value = slots[s].otp \o <<":", "0">>
        /\ Confirmed(s) /\ MetReplacement(s) /\ slots[s].otp = hist[s].sawPrev
              => slots[s].result # "SUCCESS"
        /\ Confirmed(s) /\ MetReplacement(s) /\ MetUsable(s)
              /\ slots[s].otp = CodeOf(hist[s].seen)
              => slots[s].result = "SUCCESS"

\* the replaced code has been submitted to a live replacement and refused
C3_Witness ==
    \E s \in Slots :
        /\ Confirmed(s) /\ MetReplacement(s) /\ MetUsable(s)
        /\ slots[s].otp = hist[s].sawPrev
        /\ slots[s].result = "INVALID_OTP"

\* C4: after a ConfirmChange has succeeded with a code for an email, a later
\* ConfirmChange with that code for that email returns INVALID_OTP, until a
\* RequestChange creates a new record for the email.
C4_SingleUse ==
    \A s \in Slots :
        Confirmed(s) /\ hist[s].reused => slots[s].result = "INVALID_OTP"

\* a consumed code has been submitted again
C4_Witness ==
    \E s \in Slots :
        Confirmed(s) /\ hist[s].reused /\ slots[s].result = "INVALID_OTP"

\* C5: the caller whose RequestChange created the record submits its code
\* while the record is live and below the attempt limit: ConfirmChange
\* succeeds, the caller's user has the target email and emailVerified, and
\* no record is left for the email.
C5_HappyPath ==
    \A s \in Slots :
        /\ Confirmed(s) /\ MetUsable(s)
        /\ owner[slots[s].email] = slots[s].user
        /\ slots[s].otp = CodeOf(hist[s].seen)
        => /\ slots[s].result = "SUCCESS"
           /\ users[slots[s].user].email = slots[s].email
           /\ users[slots[s].user].emailVerified
           /\ ~HasRecord(store, slots[s].email)

\* the requester has confirmed with the generated code
C5_Witness ==
    \E s \in Slots :
        /\ Confirmed(s) /\ MetUsable(s)
        /\ owner[slots[s].email] = slots[s].user
        /\ slots[s].otp = CodeOf(hist[s].seen)
        /\ slots[s].result = "SUCCESS"

\* C6: a RequestChange for an email that a user of the directory has returns
\* EMAIL_ALREADY_EXISTS in the step it arrives, leaves the verification
\* store as it was and calls the notifier not once.
C6_EmailTaken ==
    [][\A s \in Slots :
          /\ Arrived(s) /\ slots'[s].kind = "send" /\ slots'[s].user # NoUser
          /\ ~RateLimited(SendPath)
          /\ \E u \in UserIds : users[u].email = slots'[s].email
          => /\ slots'[s].pc = "done"
             /\ slots'[s].result = "EMAIL_ALREADY_EXISTS"
             /\ slots'[s].sent = <<>>
             /\ store' = store]_vars

\* a RequestChange for a taken email has returned
C6_Witness ==
    \E s \in Slots :
        /\ Requested(s) /\ hist[s].taken
        /\ slots[s].result = "EMAIL_ALREADY_EXISTS"

\* C7: a ConfirmChange that meets a record with expiresAt before the current
\* time returns OTP_EXPIRED whatever the code and the attempt count, and the
\* record stays stored as it was; a record with expiresAt equal to the
\* current time is not expired.
C7_Expiry ==
    \A s \in Slots : Confirmed(s) /\ Found(s) =>
        /\ hist[s].seen.expiresAt < hist[s].at =>
              /\ slots[s].result = "OTP_EXPIRED"
              /\ hist[s].seen \in store
        /\ hist[s].seen.expiresAt = hist[s].at
              => slots[s].result # "OTP_EXPIRED"

\* an expired record without attempts has refused its own code
C7_Witness ==
    \E s \in Slots :
        /\ Confirmed(s) /\ MetExpired(s)
        /\ AttemptsOf(hist[s].seen) = 0
        /\ slots[s].otp = CodeOf(hist[s].seen)
        /\ slots[s].result = "OTP_EXPIRED"
        /\ hist[s].seen \in store

\* C8: a request to /change-email-otp/send or /change-email-otp/verify is
\* matched by a rule of the plugin that allows 3 requests in 60 seconds, so
\* the 4th request to an endpoint within one minute is rejected.
C8_FourthRejected ==
    \A s \in Slots : Done(s) /\ hist[s].nth > 3 =>
        /\ \E i \in hist[s].rules :
              rateLimit[i].max = 3 /\ rateLimit[i].window = 60
        /\ slots[s].result = "TOO_MANY_REQUESTS"

\* the email an identifier was built from, normalised
EmailOfIdentifier(identifier) == toLowerCase(trim(Tail(identifier)))

\* C9: under any interleaving of RequestChange and ConfirmChange calls the
\* store holds at most one record per normalised target email.
C9_OneRecordPerEmail ==
    \A r1 \in store, r2 \in store :
        EmailOfIdentifier(r1.identifier) = EmailOfIdentifier(r2.identifier)
            => r1 = r2

\* two RequestChange calls have collided on the email and one record is stored
C9_Witness ==
    \E s \in Slots :
        /\ Done(s) /\ slots[s].kind = "send" /\ slots[s].result = "STORE_ERROR"
        /\ HasRecord(store, slots[s].email)

\* C10: the attempt count of a record starts at 0, never decreases while the
\* record is stored, and grows by exactly 1 with the write of every
\* ConfirmChange that compared a wrong code with the record, under any
\* interleaving of the calls.
C10_AttemptCount ==
    [][/\ \A r2 \in store' :
             (\A r \in store : r.id # r2.id) => AttemptsOf(r2) = 0
       /\ \A r \in store, r2 \in store' :
             r2.id = r.id => AttemptsOf(r2) >= AttemptsOf(r)
       /\ \A s \in Slots, r \in store :
             /\ slots[s].pc = "update" /\ slots'[s].pc = "done"
             /\ r.id = slots[s].rec.id
             => \E r2 \in store' :
                   r2.id = r.id /\ AttemptsOf(r2) = AttemptsOf(r) + 1]_vars

\* C11: when the notifier fails in a RequestChange the call fails, and the
\* record the call created stays stored with its code and attempt count 0;
\* a later ConfirmChange with that code, made before the record expires and
\* below the attempt limit, succeeds.
C11_NotifierFailure ==
    \A s \in Slots :
        /\ Requested(s) /\ slots[s].result = "NOTIFIER_ERROR" =>
              /\ slots[s].sent = <<>>
              /\ HasRecord(store, slots[s].email)
              /\ Stored(s).value = slots[s].otp \o <<":", "0">>
        /\ Confirmed(s) /\ hist[s].undelivered /\ MetUsable(s)
              /\ slots[s].otp = CodeOf(hist[s].seen)
              => slots[s].result = "SUCCESS"

\* the code of a record whose notification failed has been confirmed
C11_Witness ==
    \E s \in Slots :
        /\ Confirmed(s) /\ hist[s].undelivered /\ MetUsable(s)
        /\ slots[s].otp = CodeOf(hist[s].seen)
        /\ slots[s].result = "SUCCESS"
        /\ users[slots[s].user].email = slots[s].email

\* C12: a RequestChange or a ConfirmChange of a caller without a session
\* returns UNAUTHORIZED in the step it arrives: no store, directory or
\* notifier call is made, the verification store and the user directory are
\* as they were and nothing is sent.
C12_Unauthenticated ==
    [][\A s \in Slots :
          /\ Arrived(s) /\ slots'[s].user = NoUser
          /\ ~RateLimited(IF slots'[s].kind = "send" THEN SendPath
                          ELSE VerifyPath)
          => /\ slots'[s].pc = "done"
             /\ slots'[s].result = "UNAUTHORIZED"
             /\ slots'[s].sent = <<>>
             /\ store' = store
             /\ users' = users]_vars

\* a caller without a session has submitted the code of a usable record
C12_Witness ==
    \E s \in Slots :
        /\ Done(s) /\ slots[s].kind = "verify" /\ slots[s].user = NoUser
        /\ MetUsable(s) /\ slots[s].otp = CodeOf(hist[s].seen)
        /\ slots[s].result = "UNAUTHORIZED"
        /\ hist[s].seen \in store

\* a ConfirmChange that has matched the code of its record and deleted it:
\* what is left of it is the user update and the success response
Succeeding(s) == slots[s].kind = "verify" /\ slots[s].pc = "updateUser"

\* C13: a record is single-use under any interleaving of ConfirmChange
\* calls with its code: no two calls are on the way to success with the
\* same record, so at most one succeeds and at most one user update is made
\* for the record.
C13_SingleUse ==
    \A s \in Slots, t \in Slots :
        s # t /\ Succeeding(s) /\ Succeeding(t)
            => slots[s].rec.id # slots[t].rec.id

\* C14: the attempt limit bounds guessing: of the ConfirmChange calls on one
\* record at most maxAttempts have their code compared with the stored code,
\* under any sequence and interleaving of the calls.
C14_GuessBound ==
    \A e \in NormEmails : HasRecord(store, e) => compared[e] <= maxAttempts

\* the attempt count a stored value carries, NaN when it carries none
DecodedAttempts(value) ==
    LET parts == split(value, ":")
    IN  IF Len(parts) >= 2 THEN parseInt(parts[2]) ELSE NaN

\* C15: a record whose value has no attempt counter, or one that is no
\* number, counts as a record with attempt count 0: the first wrong code
\* stores attempt count 1, the wrong codes up to maxAttempts store their
\* number, and the call after maxAttempts wrong codes returns
\* TOO_MANY_ATTEMPTS and deletes the record.
C15_LegacyCounter ==
    \A s \in Slots : Confirmed(s) /\ hist[s].widx > 0 =>
        /\ hist[s].widx <= maxAttempts =>
              /\ slots[s].result = "INVALID_OTP"
              /\ HasRecord(store, slots[s].email)
              /\ DecodedAttempts(Stored(s).value) = hist[s].widx
        /\ hist[s].widx = maxAttempts + 1 =>
              /\ slots[s].result = "TOO_MANY_ATTEMPTS"
              /\ ~HasRecord(store, slots[s].email)

\* the place of a RequestChange in its handler
SendRank(pc) ==
    CASE pc = "idle" -> 0
      [] pc = "create1" -> 1
      [] pc = "deleteByIdentifier" -> 2
      [] pc = "create2" -> 3
      [] pc = "notify" -> 4
      [] OTHER -> 5

\* C16: a RequestChange makes at most two creation attempts: each step takes
\* it forward through first create, delete by identifier, second create and
\* notification, so each of the three store calls is made at most once; a
\* first create that fails is followed by the delete and the second create,
\* a second create that fails ends the call with that failure and without
\* a notification, and at most one notification is sent.
C16_CreateAttempts ==
    [][\A s \in Slots :
          /\ slots'[s] # slots[s]
          /\ (slots[s].kind = "send" \/ slots'[s].kind = "send")
          /\ slots'[s].pc # "idle"
          => /\ SendRank(slots'[s].pc) > SendRank(slots[s].pc)
             /\ slots[s].pc = "create1"
                   => slots'[s].pc \in {"notify", "deleteByIdentifier"}
             /\ slots[s].pc = "deleteByIdentifier" => slots'[s].pc = "create2"
             /\ slots[s].pc = "create2" =>
                   IF CreateConflicts(store, Identifier(slots[s].email))
                   THEN /\ slots'[s].pc = "done"
                        /\ slots'[s].result = "STORE_ERROR"
                        /\ slots'[s].sent = <<>>
                        /\ store' = store
                   ELSE slots'[s].pc = "notify"
             /\ store' # store
                   => slots[s].pc \in {"create1", "deleteByIdentifier", "create2"}
             /\ slots'[s].sent # slots[s].sent => slots[s].pc = "notify"
             /\ Len(slots'[s].sent) <= 1]_vars

\* the second create of a RequestChange has failed and nothing was sent
C16_Witness ==
    \E s \in Slots :
        /\ Done(s) /\ slots[s].kind = "send" /\ slots[s].user # NoUser
        /\ slots[s].result = "STORE_ERROR" /\ slots[s].sent = <<>>

\* the call arrived after TOO_MANY_ATTEMPTS had deleted the record of its
\* email and before a RequestChange created a new one
MetLocked(s) == hist[s].locked # <<>>

\* C17: a ConfirmChange that returns TOO_MANY_ATTEMPTS leaves no record for
\* the email, and every ConfirmChange for the email that follows it, the one
\* with the code of the deleted record included, returns INVALID_OTP, until
\* a RequestChange has created a new record.
C17_AfterTooManyAttempts ==
    \A s \in Slots :
        /\ Confirmed(s) /\ slots[s].result = "TOO_MANY_ATTEMPTS" =>
              /\ ~HasRecord(store, slots[s].email)
              /\ hist[s].seen \notin store
        /\ Confirmed(s) /\ MetLocked(s) =>
              /\ ~Found(s)
              /\ slots[s].result = "INVALID_OTP"

\* the code of a record deleted by TOO_MANY_ATTEMPTS has been submitted
C17_Witness ==
    \E s \in Slots :
        /\ Confirmed(s) /\ MetLocked(s) /\ slots[s].otp = hist[s].locked
        /\ slots[s].result = "INVALID_OTP"

\* C18: the user directory changes only on a code match: a step that
\* changes a user is the user update of a ConfirmChange whose code equals
\* the stored code and which returns success, and it changes the user of
\* the caller's session and no other; no step of a RequestChange and no
\* step of a ConfirmChange that returns UNAUTHORIZED, INVALID_OTP,
\* OTP_EXPIRED or TOO_MANY_ATTEMPTS changes a user.
C18_DirectoryFrame ==
    [][users' # users =>
          \E s \in Slots :
              /\ slots[s].kind = "verify" /\ slots[s].pc = "updateUser"
              /\ slots[s].user # NoUser
              /\ slots[s].storedOtp = slots[s].otp
              /\ slots'[s].pc = "done" /\ slots'[s].result = "SUCCESS"
              /\ \A t \in Slots \ {s} : slots'[t] = slots[t]
              /\ \A u \in UserIds \ {slots[s].user} : users'[u] = users[u]]_vars

\* one user has been given a confirmed email and the other is as it was
C18_Witness ==
    \E s \in Slots :
        /\ Confirmed(s) /\ slots[s].result = "SUCCESS"
        /\ users[slots[s].user].email = slots[s].email
        /\ \A u \in UserIds \ {slots[s].user} :
              /\ ~users[u].emailVerified
              /\ users[u].email \notin NormEmails \/ users[u].email = <<"q", "@", "x">>

\* a RequestChange that has created its record and has not failed
HasCreated(s) ==
    /\ slots[s].kind = "send"
    /\ \/ slots[s].pc = "notify"
       \/ slots[s].pc = "done" /\ slots[s].result = "SUCCESS"

\* the records stored for an email
RecordsOf(st, email) == {r \in st : r.identifier = Identifier(email)}

\* two RequestChange calls for one email have both returned success
BothRequested(s, t) ==
    /\ s # t /\ Requested(s) /\ Requested(t)
    /\ slots[s].result = "SUCCESS" /\ slots[t].result = "SUCCESS"
    /\ slots[s].email = slots[t].email

\* C19: when two RequestChange calls for one email have both returned
\* success, under any interleaving, exactly one record is stored for the
\* email, its attempt count is 0 and its code is the code of one of the two
\* calls: the create that completes second leaves its own record, and no
\* step changes the records of the email while both calls have created.
C19_TwoRequests ==
    /\ [](\A s \in Slots, t \in Slots : BothRequested(s, t) =>
             /\ Cardinality(RecordsOf(store, slots[s].email)) = 1
             /\ Stored(s).value \in {slots[s].otp \o <<":", "0">>,
                                      slots[t].otp \o <<":", "0">>})
    /\ [][\A s \in Slots, t \in Slots :
             /\ s # t /\ HasCreated(t)
             /\ slots[s].kind = "send" /\ slots[s].email = slots[t].email
             => /\ CreatedBy(s) =>
                      RecordsOf(store', slots[s].email) =
                          {r \in store' : r.value = slots[s].otp \o <<":", "0">>}
                /\ HasCreated(s) =>
                      RecordsOf(store', slots[s].email) =
                          RecordsOf(store, slots[s].email)]_vars

\* two RequestChange calls of two users with different codes have both
\* returned success and the record carries the code of one of them
C19_Witness ==
    \E s \in Slots, t \in Slots :
        /\ BothRequested(s, t) /\ slots[s].otp # slots[t].otp
        /\ slots[s].user # slots[t].user
        /\ Stored(s).value = slots[s].otp \o <<":", "0">>

\* C20: in every reachable state, under any sequence and interleaving of
\* RequestChange and ConfirmChange calls of authenticated users, no two
\* users have the same email.
C20_UniqueEmails ==
    \A u \in UserIds, v \in UserIds :
        u # v => users[u].email # users[v].email

\* the user update of the call of slot s has failed
UpdateFailed(s) == Confirmed(s) /\ slots[s].result = "DIRECTORY_ERROR"

\* C21: on a code match the record is deleted before the user is updated:
\* when the user update fails the call fails, no user is changed and the
\* record is gone, so the same code submitted again returns INVALID_OTP;
\* and whenever a ConfirmChange changes a user's email, the record it
\* consumed is no longer stored.
C21_DeleteBeforeUpdate ==
    /\ [](\A s \in Slots :
             /\ UpdateFailed(s) =>
                   /\ ~HasRecord(store, slots[s].email)
                   /\ hist[s].seen \notin store
             /\ Confirmed(s) /\ hist[s].reused
                   => slots[s].result = "INVALID_OTP")
    /\ [][\A s \in Slots :
             slots[s].pc = "updateUser" /\ slots'[s].pc = "done" =>
                /\ \A r \in store \cup store' : r.id # slots[s].rec.id
                /\ slots'[s].result = "DIRECTORY_ERROR" => users' = users
                /\ users' # users =>
                      /\ slots'[s].result = "SUCCESS"
                      /\ users'[slots[s].user].email = slots[s].email]_vars

\* the code of a record consumed by a ConfirmChange whose user update failed
\* has been submitted again, and nobody has the email
C21_Witness ==
    \E s \in Slots :
        /\ Confirmed(s) /\ hist[s].reused
        /\ slots[s].result = "INVALID_OTP"
        /\ \A u \in UserIds : users[u].email # slots[s].email

\* the call submitted the code of a usable record
MetWithCode(s) ==
    Confirmed(s) /\ MetUsable(s) /\ slots[s].otp = CodeOf(hist[s].seen)

\* the user whose RequestChange created the record the call met
Requester(s) == owner[slots[s].email]

\* C22 as claimed: a ConfirmChange with the code of the live record gives
\* the target email only to the user whose RequestChange created the
\* record: a different authenticated user who submits the code does not get
\* the email.
C22_AsClaimed ==
    \A s \in Slots :
        MetWithCode(s) /\ Requester(s) # slots[s].user
            => users[slots[s].user].email # slots[s].email

\* C22 amended: the record is keyed by the target email and not by the
\* requesting user: a ConfirmChange of any authenticated user with the code
\* of the live record succeeds and gives the target email to the user of
\* the caller's session and to no other user, the requester included.
C22_CodeHolder ==
    \A s \in Slots :
        MetWithCode(s) =>
            /\ slots[s].result = "SUCCESS"
            /\ users[slots[s].user].email = slots[s].email
            /\ \A u \in UserIds \ {slots[s].user} :
                  users[u].email # slots[s].email

\* a user other than the requester has confirmed with the code
C22_Witness ==
    \E s \in Slots :
        /\ MetWithCode(s) /\ slots[s].result = "SUCCESS"
        /\ Requester(s) \in UserIds \ {slots[s].user}
        /\ users[slots[s].user].email = slots[s].email
        /\ users[Requester(s)].email # slots[s].email

====
